---- MODULE Spec2Model ----
(***************************************************************************)
(* Triage-and-repair pipeline of AudiophileNAS.                            *)
(*                                                                         *)
(*   features/audio-repair/detection/scanner_service.py                    *)
(*       Database, AudioPredictor, run_metadata_repair, NewFileHandler,    *)
(*       __main__ (initial scan, then the watchdog observer)               *)
(*   features/audio-repair/repair/repair_service.py    RepairService       *)
(*   features/audio-repair/repair/tools/denoiser.py    AudioDenoiser       *)
(*                                                                         *)
(* A file name is [gen, stem, ext]: gen counts the leading "repaired_"     *)
(* prefixes, so "repaired_a.flac" is [gen |-> 1, stem |-> "a",             *)
(* ext |-> "flac"].  A path in the watch tree is [dir, name].  A file      *)
(* content is [id, rep]: id names the bytes a user dropped, rep counts the *)
(* ffmpeg passes that produced them.  Scores are hundredths (0.5 = 50).    *)
(***************************************************************************)
EXTENDS Integers, Sequences, FiniteSets, TLC

\* ---------------------------------------------------------------- bounds
MaxGen == 1        \* deepest "repaired_" nesting the model follows
MaxFiles == 2      \* files the user puts into the watch tree, startup included
MaxBoots == 2      \* times the service process is started

\* ------------------------------------------------------- program constants
NOISE_THRESHOLD == 50
FAILSAFE_SCORE == 100
NaN == 999

Workers == {"main", "observer"}
Dirs == {"root", "sub"}
AudioExts == {"mp3", "flac", "wav", "m4a"}

NoName == [gen |-> -1, stem |-> "", ext |-> ""]
NoPath == [dir |-> "", name |-> NoName]
NoContent == [id |-> 0, rep |-> 0]

Name(g, s, e) == [gen |-> g, stem |-> s, ext |-> e]
Path(d, n) == [dir |-> d, name |-> n]

\* paths at which a user puts files into the watch tree:
\* a.mp3, a.txt, repaired_a.flac, sub/a.mp3
UserPaths ==
    {Path("root", Name(0, "a", "mp3")), Path("root", Name(0, "a", "txt")),
     Path("root", Name(1, "a", "flac")), Path("sub", Name(0, "a", "mp3"))}

\* what the interpreter can hand back as output[0][0]
ModelOutputs == {10, 50, -20, NaN}
\* "prefail": preprocess returned None; "raise": set_tensor/invoke/get_tensor
\* raised; "output": the model produced out
ScorerOutcomes ==
    {[kind |-> "prefail", out |-> 0], [kind |-> "raise", out |-> 0]}
        \cup {[kind |-> "output", out |-> v] : v \in ModelOutputs}
NoOutcome == [kind |-> "none", out |-> 0]

\* what a failed ffmpeg run may leave at its output path
Partial == [id |-> -1, rep |-> 0]

\* ffmpeg run by AudioDenoiser.reduce_noise
\* ("fail" stands for a non-zero exit and for subprocess.run raising: both
\* make reduce_noise answer False and write nothing)
ToolOutcomes == {"ok", "ok_no_output", "fail", "fail_partial", "hang"}

\* ------------------------------------------------------------ pure helpers
\* float comparison: every comparison with NaN is false
Lt(a, b) == a # NaN /\ b # NaN /\ a < b

ValidScore(s) == s # NaN /\ 0 <= s /\ s <= 100

\* a comparison that lets a score equal to the threshold pass as clean
IsCleanInclusive(score) == score # NaN /\ score <= NOISE_THRESHOLD

\* scanner_service.py:196
IsClean(score) == Lt(score, NOISE_THRESHOLD)

\* a dispatch without the extension test
IsAudioAny(p) == TRUE

\* scanner_service.py:183 and :273; ext is the suffix of the lower-cased name
IsAudio(p) == p.name.ext \in AudioExts

\* scanner_service.py:231  os.path.join(QUARANTINE_DIR, os.path.basename(filepath))
QuarantineDest(p) == p.name

\* a workspace name that keeps the source's extension
WorkFilenameKeepsExt(n) == [gen |-> n.gen + 1, stem |-> n.stem, ext |-> n.ext]

\* repair_service.py:57-58  "repaired_" + splitext(filename)[0] + ".flac"
WorkFilename(n) == [gen |-> n.gen + 1, stem |-> n.stem, ext |-> "flac"]

\* repair_service.py:75  os.path.join(self.output_dir, work_filename), output_dir = WATCH_DIR
FinalDest(wn) == [dir |-> "root", name |-> wn]

\* the bytes ffmpeg writes for an input
Denoised(c) == [id |-> c.id, rep |-> c.rep + 1]

NoFiles == [x \in {} |-> NoContent]

\* function update that also extends the domain
Put(f, k, v) == [x \in (DOMAIN f) \cup {k} |-> IF x = k THEN v ELSE f[x]]
Del(f, k) == [x \in (DOMAIN f) \ {k} |-> f[x]]

\* ---------------------------------------------------------------- ledger
\* a ledger lookup that never finds the path
IsScannedNever(d, p) == FALSE

\* scanner_service.py:76-79
IsScanned(d, p) == p \in DOMAIN d

NewRow(p, is_clean, score) ==
    [filename |-> p.name, is_clean |-> is_clean, noise_score |-> score,
     metadata_status |-> "PENDING", repair_status |-> "NONE"]

\* an INSERT OR REPLACE: a later create overwrites the row
AddResultReplaces(d, p, is_clean, score) == Put(d, p, NewRow(p, is_clean, score))

\* scanner_service.py:81-90: filepath is UNIQUE, the IntegrityError is swallowed
AddResult(d, p, is_clean, score) ==
    IF p \in DOMAIN d THEN d ELSE Put(d, p, NewRow(p, is_clean, score))

\* an update that never reaches the table
UpdateStatusLost(d, p, col, status) == d

\* scanner_service.py:92-99: UPDATE ... WHERE filepath = ?
UpdateStatus(d, p, col, status) ==
    IF p \notin DOMAIN d THEN d
    ELSE IF col = "metadata_status"
         THEN [d EXCEPT ![p].metadata_status = status]
         ELSE [d EXCEPT ![p].repair_status = status]

\* ----------------------------------------------------------------- state
VARIABLES
    ingest,          \* WATCH_DIR tree: path -> content
    quarantine,      \* QUARANTINE_DIR: name -> content
    workspace,       \* repair_workspace: name -> content
    db,              \* scans table: filepath -> row
    repair_service,  \* "None" | "NoDenoiser" | "Ready"
    phase,           \* __main__: "sweep_root" | "sweep_sub" | "watching" | "dead"
    sweepTodo,       \* files of the os.walk listing not yet visited
    observing,       \* observer.start() has run
    events,          \* created events waiting in the observer's queue
    pc,              \* per thread: position inside process_file
    loc,             \* per thread: locals of process_file / repair_file
    hist,            \* per path: what the handler has done for it (history)
    drops,           \* number of files the user has put into the tree so far
    boots            \* number of times the service process has been started

vars == <<ingest, quarantine, workspace, db, repair_service, phase, sweepTodo,
          observing, events, pc, loc, hist, drops, boots>>

NoLoc == [filepath |-> NoPath, content |-> NoContent, score |-> 0,
          is_clean |-> FALSE, created |-> FALSE, quarantined_path |-> NoName, work |-> NoName,
          tool |-> "none", repair_success |-> FALSE, repaired_file |-> NoPath]

NoHist == [skipped |-> FALSE, skipBoot |-> 0, scored |-> 0, raw |-> NoOutcome,
           content |-> NoContent, created |-> 0, createdBoot |-> 0,
           meta |-> 0, needed |-> 0, moved |-> 0,
           repaired |-> 0, repairedOn |-> NoName, returned |-> 0]

H(p) == IF p \in DOMAIN hist THEN hist[p] ELSE NoHist

\* every path the model can hold in the watch tree
AllPaths ==
    {Path(d, Name(g, "a", e)) : d \in Dirs, g \in 0..(MaxGen + 1), e \in {"mp3", "flac", "txt"}}

Listing(d) == {p \in DOMAIN ingest : p.dir = d}

\* a fixed numbering of the user paths, used to give startup files distinct bytes
RECURSIVE RankIn(_, _)
RankIn(S, p) ==
    IF S = {} THEN 0
    ELSE LET q == CHOOSE x \in S : TRUE
         IN IF q = p THEN Cardinality(S) ELSE RankIn(S \ {q}, p)
PathId(p) == RankIn(UserPaths, p)

InitFiles == {S \in SUBSET UserPaths : Cardinality(S) < MaxFiles}

InitCommon ==
    /\ \E S \in InitFiles : ingest = [p \in S |-> [id |-> PathId(p), rep |-> 0]]
    /\ quarantine = NoFiles
    /\ workspace = NoFiles
    /\ db = NoFiles
    /\ repair_service \in {"None", "NoDenoiser", "Ready"}
    /\ phase = "sweep_root"
    /\ sweepTodo = Listing("root")
    /\ events = << >>
    /\ pc = [w \in Workers |-> "idle"]
    /\ loc = [w \in Workers |-> NoLoc]
    /\ hist = NoFiles
    /\ drops = Cardinality(DOMAIN ingest)
    /\ boots = 1

\* scanner_service.py:240-276: the initial scan runs before observer.start()
Init == InitCommon /\ observing = FALSE

Bump(p, h) == Put(hist, p, h)

\* ------------------------------------------------------------ environment
\* the user (or a download client) creates a file in the watch tree
UserDrop(p) ==
    /\ drops < MaxFiles
    /\ phase # "dead"
    /\ p \notin DOMAIN ingest
    /\ ingest' = Put(ingest, p, [id |-> Cardinality(UserPaths) + drops + 1, rep |-> 0])
    /\ drops' = drops + 1
    /\ events' = IF observing THEN Append(events, p) ELSE events
    /\ UNCHANGED <<quarantine, workspace, db, repair_service, phase, sweepTodo,
                   observing, pc, loc, hist, boots>>

\* ------------------------------------------------------------ __main__
\* scanner_service.py:271-274, one file of the current directory listing
SweepVisit(p) ==
    /\ phase \in {"sweep_root", "sweep_sub"}
    /\ pc["main"] = "idle"
    /\ p \in sweepTodo
    /\ sweepTodo' = sweepTodo \ {p}
    /\ IF IsAudio(p)
       THEN /\ pc' = [pc EXCEPT !["main"] = "pf_check"]
            /\ loc' = [loc EXCEPT !["main"] = [NoLoc EXCEPT !.filepath = p]]
       ELSE UNCHANGED <<pc, loc>>
    /\ UNCHANGED <<ingest, quarantine, workspace, db, repair_service, phase,
                   observing, events, hist, drops, boots>>

\* os.walk is top-down: a subdirectory is listed when the walk reaches it
SweepDescend ==
    /\ phase = "sweep_root"
    /\ pc["main"] = "idle"
    /\ sweepTodo = {}
    /\ phase' = "sweep_sub"
    /\ sweepTodo' = Listing("sub")
    /\ UNCHANGED <<ingest, quarantine, workspace, db, repair_service,
                   observing, events, pc, loc, hist, drops, boots>>

\* scanner_service.py:276  observer.start()
ObserverStart ==
    /\ phase = "sweep_sub"
    /\ pc["main"] = "idle"
    /\ sweepTodo = {}
    /\ phase' = "watching"
    /\ observing' = TRUE
    /\ UNCHANGED <<ingest, quarantine, workspace, db, repair_service,
                   sweepTodo, events, pc, loc, hist, drops, boots>>

\* scanner_service.py:180-185  NewFileHandler.on_created
OnCreated ==
    /\ observing
    /\ pc["observer"] = "idle"
    /\ events # << >>
    /\ events' = Tail(events)
    /\ IF IsAudio(Head(events))
       THEN /\ pc' = [pc EXCEPT !["observer"] = "pf_check"]
            /\ loc' = [loc EXCEPT !["observer"] = [NoLoc EXCEPT !.filepath = Head(events)]]
       ELSE UNCHANGED <<pc, loc>>
    /\ UNCHANGED <<ingest, quarantine, workspace, db, repair_service, phase,
                   sweepTodo, observing, hist, drops, boots>>

\* an exception leaves process_file: in the main thread it ends the process
\* before observer.start(), in the observer thread it ends the dispatch loop
Escape(w) ==
    /\ pc' = [pc EXCEPT ![w] = "crashed"]
    /\ phase' = IF w = "main" THEN "dead" ELSE phase

Return(w) ==
    /\ pc' = [pc EXCEPT ![w] = "idle"]
    /\ loc' = [loc EXCEPT ![w] = NoLoc]

\* ------------------------------------------------------- process_file
\* scanner_service.py:188-199  is_scanned, then AudioPredictor.predict
PfCheck(w) ==
    /\ pc[w] = "pf_check"
    /\ LET p == loc[w].filepath IN
       IF IsScanned(db, p)
       THEN /\ Return(w)
            /\ hist' = Bump(p, [H(p) EXCEPT !.skipped = TRUE, !.skipBoot = boots])
            /\ UNCHANGED phase
       ELSE \E o \in ScorerOutcomes :
            /\ hist' = Bump(p, [H(p) EXCEPT !.scored = @ + 1, !.raw = o,
                                            !.content = IF p \in DOMAIN ingest
                                                        THEN ingest[p] ELSE NoContent])
            /\ IF o.kind = "raise"
               THEN /\ Escape(w)
                    /\ UNCHANGED loc
               ELSE LET score == IF o.kind = "prefail" THEN FAILSAFE_SCORE ELSE o.out IN
                    /\ pc' = [pc EXCEPT ![w] = "pf_add"]
                    /\ loc' = [loc EXCEPT ![w].score = score,
                                          ![w].is_clean = IsClean(score),
                                          ![w].content = IF p \in DOMAIN ingest
                                                         THEN ingest[p] ELSE NoContent]
                    /\ UNCHANGED phase
    /\ UNCHANGED <<ingest, quarantine, workspace, db, repair_service, sweepTodo,
                   observing, events, drops, boots>>

\* a branch that sends clean files to quarantine and dirty ones to tagging
BranchInverted(is_clean) == IF is_clean THEN "pf_needed" ELSE "pf_meta"

\* scanner_service.py:203-210  if is_clean: ... else: ...
Branch(is_clean) == IF is_clean THEN "pf_meta" ELSE "pf_needed"

\* scanner_service.py:200-203
PfAdd(w) ==
    /\ pc[w] = "pf_add"
    /\ LET p == loc[w].filepath IN
       /\ db' = AddResult(db, p, loc[w].is_clean, loc[w].score)
       /\ hist' = IF p \in DOMAIN db THEN hist
                  ELSE Bump(p, [H(p) EXCEPT !.created = @ + 1, !.createdBoot = boots])
       /\ loc' = [loc EXCEPT ![w].created = (p \notin DOMAIN db)]
    /\ pc' = [pc EXCEPT ![w] = Branch(loc[w].is_clean)]
    /\ UNCHANGED <<ingest, quarantine, workspace, repair_service, phase, sweepTodo,
                   observing, events, drops, boots>>

\* a status choice that forgets the failure branch
MetadataStatusOnlyOnSuccess(ok) == IF ok THEN "COMPLETED" ELSE "PENDING"

\* scanner_service.py:205-208
MetadataStatus(ok) == IF ok THEN "COMPLETED" ELSE "FAILED"

\* scanner_service.py:205-208 with run_metadata_repair (147-171), which
\* answers False for every failure of the CLI, an exception included
PfMeta(w) ==
    /\ pc[w] = "pf_meta"
    /\ LET p == loc[w].filepath IN
       \E ok \in BOOLEAN :
          /\ db' = UpdateStatus(db, p, "metadata_status", MetadataStatus(ok))
          /\ hist' = Bump(p, [H(p) EXCEPT !.meta = @ + 1, !.returned = @ + 1])
    /\ Return(w)
    /\ UNCHANGED <<ingest, quarantine, workspace, repair_service, phase, sweepTodo,
                   observing, events, drops, boots>>

\* scanner_service.py:211
PfNeeded(w) ==
    /\ pc[w] = "pf_needed"
    /\ LET p == loc[w].filepath IN
       /\ db' = UpdateStatus(db, p, "repair_status", "NEEDED")
       /\ hist' = Bump(p, [H(p) EXCEPT !.needed = @ + 1])
    /\ pc' = [pc EXCEPT ![w] = "pf_move"]
    /\ UNCHANGED <<ingest, quarantine, workspace, repair_service, phase, sweepTodo,
                   observing, events, loc, drops, boots>>

\* scanner_service.py:228-237  shutil.move replaces a file already at dest
MoveToQuarantine(q, p, c) == Put(q, QuarantineDest(p), c)

\* a guard that starts the repair whatever the move answered
ShouldRepairAnyway(quarantined_path, rs) == rs # "None"

\* scanner_service.py:214  if quarantined_path and self.repair_service
ShouldRepair(quarantined_path, rs) == quarantined_path # NoName /\ rs # "None"

\* scanner_service.py:212-214
PfMove(w) ==
    /\ pc[w] = "pf_move"
    /\ LET p == loc[w].filepath IN
       \E fsok \in BOOLEAN :
          LET moved == fsok /\ p \in DOMAIN ingest
              qp == IF moved THEN QuarantineDest(p) ELSE NoName
          IN
          /\ quarantine' = IF moved THEN MoveToQuarantine(quarantine, p, ingest[p])
                           ELSE quarantine
          /\ ingest' = IF moved THEN Del(ingest, p) ELSE ingest
          /\ IF ShouldRepair(qp, repair_service)
             THEN /\ pc' = [pc EXCEPT ![w] = "rf_start"]
                  /\ loc' = [loc EXCEPT ![w].quarantined_path = qp]
                  /\ hist' = Bump(p, [H(p) EXCEPT !.moved = @ + (IF moved THEN 1 ELSE 0)])
             ELSE /\ Return(w)
                  /\ hist' = Bump(p, [H(p) EXCEPT !.moved = @ + (IF moved THEN 1 ELSE 0),
                                                  !.returned = @ + 1])
    /\ UNCHANGED <<workspace, db, repair_service, phase, sweepTodo,
                   observing, events, drops, boots>>

\* ------------------------------------------------------- repair_file
\* denoiser.py:32-61: what ffmpeg -y leaves at the output path
ToolWrites(ws, wn, t, src) ==
    IF t = "ok" THEN Put(ws, wn, Denoised(src))
    ELSE IF t = "fail_partial" THEN Put(ws, wn, Partial)
    ELSE ws

\* a caller that takes every run of the tool for a success
ToolReportsAlways(t) == TRUE

\* denoiser.py:51-61: the boolean reduce_noise answers
ToolReports(t) == t \in {"ok", "ok_no_output"}

\* repair_service.py:48-66.  subprocess.run is called without a timeout, so
\* a run that never exits keeps the caller at rf_hung
RfStart(w) ==
    /\ pc[w] = "rf_start"
    /\ LET p == loc[w].filepath
           qp == loc[w].quarantined_path
           wn == WorkFilename(qp)
       IN
       /\ hist' = Bump(p, [H(p) EXCEPT !.repaired = @ + 1, !.repairedOn = qp])
       /\ IF repair_service = "NoDenoiser"
          THEN /\ pc' = [pc EXCEPT ![w] = "pf_final"]
               /\ loc' = [loc EXCEPT ![w].repaired_file = NoPath]
               /\ UNCHANGED workspace
          ELSE /\ wn.gen <= MaxGen
               /\ \E t0 \in ToolOutcomes :
                    LET t == IF qp \in DOMAIN quarantine \/ t0 = "hang" THEN t0 ELSE "fail" IN
                    /\ workspace' = IF qp \in DOMAIN quarantine
                                    THEN ToolWrites(workspace, wn, t, quarantine[qp])
                                    ELSE workspace
                    /\ pc' = [pc EXCEPT ![w] = IF t = "hang" THEN "rf_hung" ELSE "rf_finalize"]
                    /\ loc' = [loc EXCEPT ![w].work = wn, ![w].tool = t,
                                          ![w].repair_success = ToolReports(t)]
    /\ UNCHANGED <<ingest, quarantine, db, repair_service, phase, sweepTodo,
                   observing, events, drops, boots>>

\* repair_service.py:80  shutil.move replaces a file already at final_dest
MoveToOutput(ing, wn, c) == Put(ing, FinalDest(wn), c)

\* a move that leaves the file at the destination although it raised
ReinjectLeavesFile(ing, wn, c, fsok) == MoveToOutput(ing, wn, c)

\* repair_service.py:77-88: the move into output_dir, or the exception path
Reinject(ing, wn, c, fsok) == IF fsok THEN MoveToOutput(ing, wn, c) ELSE ing

\* repair_service.py:71-94
RfFinalize(w) ==
    /\ pc[w] = "rf_finalize"
    /\ LET wn == loc[w].work IN
       IF loc[w].repair_success /\ wn \in DOMAIN workspace
       THEN \E fsok \in BOOLEAN :
              /\ ingest' = Reinject(ingest, wn, workspace[wn], fsok)
              /\ events' = IF fsok /\ observing THEN Append(events, FinalDest(wn)) ELSE events
              /\ workspace' = Del(workspace, wn)
              /\ loc' = [loc EXCEPT ![w].repaired_file = IF fsok THEN FinalDest(wn) ELSE NoPath]
       ELSE /\ workspace' = Del(workspace, wn)
            /\ loc' = [loc EXCEPT ![w].repaired_file = NoPath]
            /\ UNCHANGED <<ingest, events>>
    /\ pc' = [pc EXCEPT ![w] = "pf_final"]
    /\ UNCHANGED <<quarantine, db, repair_service, phase, sweepTodo, observing,
                   hist, drops, boots>>

\* scanner_service.py:221-226
RepairStatus(repaired_file) == IF repaired_file # NoPath THEN "FIXED" ELSE "UNFIXABLE"

\* scanner_service.py:221-226
PfFinal(w) ==
    /\ pc[w] = "pf_final"
    /\ LET p == loc[w].filepath IN
       /\ db' = UpdateStatus(db, p, "repair_status", RepairStatus(loc[w].repaired_file))
       /\ hist' = Bump(p, [H(p) EXCEPT !.returned = @ + 1])
    /\ Return(w)
    /\ UNCHANGED <<ingest, quarantine, workspace, repair_service, phase, sweepTodo,
                   observing, events, drops, boots>>

\* ------------------------------------------------------------ specification
\* one step of process_file in thread w
Handler(w) ==
    \/ PfCheck(w)
    \/ PfAdd(w)
    \/ PfMeta(w)
    \/ PfNeeded(w)
    \/ PfMove(w)
    \/ RfStart(w)
    \/ RfFinalize(w)
    \/ PfFinal(w)

Next ==
    \/ \E p \in UserPaths : UserDrop(p)
    \/ \E p \in AllPaths : SweepVisit(p)
    \/ SweepDescend
    \/ ObserverStart
    \/ OnCreated
    \/ \E w \in Workers : PfCheck(w)
    \/ \E w \in Workers : PfAdd(w)
    \/ \E w \in Workers : PfMeta(w)
    \/ \E w \in Workers : PfNeeded(w)
    \/ \E w \in Workers : PfMove(w)
    \/ \E w \in Workers : RfStart(w)
    \/ \E w \in Workers : RfFinalize(w)
    \/ \E w \in Workers : PfFinal(w)

Spec == Init /\ [][Next]_vars

\* process_file entered by two threads at once: the observer already
\* dispatches creation events while the initial scan is still walking the
\* tree (the Database is opened with check_same_thread=False)
InitPool == InitCommon /\ observing = TRUE

\* the initial scan ends with the observer already running
SweepEnd ==
    /\ phase = "sweep_sub"
    /\ pc["main"] = "idle"
    /\ sweepTodo = {}
    /\ phase' = "watching"
    /\ UNCHANGED <<ingest, quarantine, workspace, db, repair_service,
                   sweepTodo, observing, events, pc, loc, hist, drops, boots>>

NextPool ==
    \/ \E p \in UserPaths : UserDrop(p)
    \/ \E p \in AllPaths : SweepVisit(p)
    \/ SweepDescend
    \/ SweepEnd
    \/ OnCreated
    \/ \E w \in Workers : PfCheck(w)
    \/ \E w \in Workers : PfAdd(w)
    \/ \E w \in Workers : PfMeta(w)
    \/ \E w \in Workers : PfNeeded(w)
    \/ \E w \in Workers : PfMove(w)
    \/ \E w \in Workers : RfStart(w)
    \/ \E w \in Workers : RfFinalize(w)
    \/ \E w \in Workers : PfFinal(w)

SpecPool == InitPool /\ [][NextPool]_vars

\* ------------------------------------------------------------ restart
\* a reopen that starts from an empty table
ReopenFresh(d) == NoFiles

\* scanner_service.py:55-74: sqlite3.connect on the file at DB_PATH and
\* CREATE TABLE IF NOT EXISTS; every write was committed when it was made
Reopen(d) == d

\* the process stops at any point (killed, crashed, hung and killed) and
\* __main__ runs again on the same machine: the threads, the walk and the
\* event queue are new, the directories and the file at DB_PATH are what the
\* old process left, ffmpeg is installed or missing as before
Restart ==
    /\ boots < MaxBoots
    /\ boots' = boots + 1
    /\ db' = Reopen(db)
    /\ repair_service' = repair_service
    /\ phase' = "sweep_root"
    /\ sweepTodo' = Listing("root")
    /\ observing' = FALSE
    /\ events' = << >>
    /\ pc' = [w \in Workers |-> "idle"]
    /\ loc' = [w \in Workers |-> NoLoc]
    /\ UNCHANGED <<ingest, quarantine, workspace, hist, drops>>

\* the service over several runs, each with its initial scan: the files are
\* the ones in the watch tree at the first start and the ones the repairs put
\* back, so no creation event reaches the observer
NextRestart ==
    \/ \E p \in AllPaths : SweepVisit(p)
    \/ SweepDescend
    \/ ObserverStart
    \/ \E w \in Workers : PfCheck(w)
    \/ \E w \in Workers : PfAdd(w)
    \/ \E w \in Workers : PfMeta(w)
    \/ \E w \in Workers : PfNeeded(w)
    \/ \E w \in Workers : PfMove(w)
    \/ \E w \in Workers : RfStart(w)
    \/ \E w \in Workers : RfFinalize(w)
    \/ \E w \in Workers : PfFinal(w)
    \/ Restart

SpecRestart == Init /\ [][NextRestart]_vars

\* ------------------------------------------------------------ the ledger
\* the Database class on its own: add_result and update_status called with
\* any arguments, in any order, on the table create_table has made
LedgerPaths == {p \in UserPaths : p.dir = "root" /\ IsAudio(p)}
MetadataStatuses == {"COMPLETED", "FAILED"}
RepairStatuses == {"NEEDED", "FIXED", "UNFIXABLE"}

\* scanner_service.py:81-90 called with (p, is_clean, score)
LedgerAdd(p, is_clean, score) ==
    /\ db' = AddResult(db, p, is_clean, score)
    /\ hist' = IF p \in DOMAIN db
               THEN Bump(p, [H(p) EXCEPT !.skipped = TRUE])
               ELSE Bump(p, [H(p) EXCEPT !.created = 1])
    /\ UNCHANGED <<ingest, quarantine, workspace, repair_service, phase, sweepTodo,
                   observing, events, pc, loc, drops, boots>>

\* scanner_service.py:92-99 called with (p, column, status)
LedgerUpdate(p, col, status) ==
    /\ db' = UpdateStatus(db, p, col, status)
    /\ UNCHANGED <<ingest, quarantine, workspace, repair_service, phase, sweepTodo,
                   observing, events, pc, loc, hist, drops, boots>>

NextLedger ==
    \/ \E p \in LedgerPaths, c \in BOOLEAN, s \in ModelOutputs : LedgerAdd(p, c, s)
    \/ \E p \in LedgerPaths, st \in MetadataStatuses : LedgerUpdate(p, "metadata_status", st)
    \/ \E p \in LedgerPaths, st \in RepairStatuses : LedgerUpdate(p, "repair_status", st)

\* the table as create_table leaves it; the directories play no part here
InitLedger == Init /\ ingest = NoFiles /\ repair_service = "Ready"

SpecLedger == InitLedger /\ [][NextLedger]_vars

\* ------------------------------------------------------------------ claims
Ge(a, b) == a # NaN /\ b # NaN /\ a >= b

\* the name repair_file derives for a source name: "repaired_<stem>.flac"
DerivedName(n) == Name(n.gen + 1, n.stem, "flac")

\* C1: a handle(p) that starts when p already has a ledger row returns at once
\* and changes nothing: the row count, the rows, the three directories and the
\* record of scorer, metadata, quarantine and repair invocations stay as they are.
C1_Idempotent ==
    [][\A w \in Workers :
         (pc[w] = "pf_check" /\ loc[w].filepath \in DOMAIN db /\ pc'[w] # pc[w])
            => /\ pc'[w] = "idle"
               /\ db' = db
               /\ ingest' = ingest /\ quarantine' = quarantine /\ workspace' = workspace
               /\ \A f \in {"scored", "created", "meta", "needed", "moved", "repaired"} :
                    H(loc[w].filepath)[f] = hist'[loc[w].filepath][f]]_vars

\* a second handle of a ledgered path has been skipped
C1_Witness ==
    \E p \in DOMAIN hist : hist[p].skipped /\ hist[p].created = 1 /\ hist[p].scored = 1

ScorerFailed(o) ==
    \/ o.kind \in {"prefail", "raise"}
    \/ o.kind = "output" /\ ~ValidScore(o.out)

\* C3: when the scorer raised or produced an invalid value for p, no exception
\* left process_file and the row of p is the fail-safe one: is_clean false and
\* noise_score 1.0.
C3_FailSafeScoring ==
    /\ \A w \in Workers : pc[w] # "crashed"
    /\ \A p \in DOMAIN db :
         ScorerFailed(H(p).raw)
            => ~db[p].is_clean /\ db[p].noise_score = FAILSAFE_SCORE

\* what Scenario B promises in the state in which handle(p) returns
ScenarioBHolds(w) ==
    LET p == loc[w].filepath
        c == loc[w].content
        q == p.name
        r == Path("root", DerivedName(p.name))
    IN /\ ~(p \in DOMAIN ingest' /\ ingest'[p] = c)
       /\ q \in DOMAIN quarantine' /\ quarantine'[q] = c
       /\ r \in DOMAIN ingest' /\ ingest'[r] = Denoised(c)
       /\ H(p).needed = 1 /\ db[p].repair_status = "NEEDED"
       /\ db'[p].repair_status = "FIXED"
       /\ H(p).repaired = 1 /\ H(p).repairedOn = q

\* C4 as stated: a file scoring at or above the threshold whose ffmpeg run
\* succeeded ends, when handle(p) returns, quarantined, FIXED, and with
\* repaired_<stem>.flac in the ingestion directory.
C4_ScenarioB_AsStated ==
    [][\A w \in Workers :
         (pc[w] = "pf_final" /\ pc'[w] = "idle"
            /\ Ge(loc[w].score, NOISE_THRESHOLD) /\ loc[w].tool = "ok")
            => ScenarioBHolds(w)]_vars

\* C4 amended: the same, when moreover the move of the repaired output into
\* the ingestion directory succeeded (repair_file returned a path).
C4_ScenarioB ==
    [][\A w \in Workers :
         (pc[w] = "pf_final" /\ pc'[w] = "idle"
            /\ Ge(loc[w].score, NOISE_THRESHOLD) /\ loc[w].tool = "ok"
            /\ loc[w].repaired_file # NoPath)
            => ScenarioBHolds(w)]_vars

\* a dirty file was quarantined, repaired and its output re-injected
C4_Witness ==
    \E p \in DOMAIN db :
        /\ db[p].repair_status = "FIXED"
        /\ Ge(db[p].noise_score, NOISE_THRESHOLD)
        /\ H(p).returned = 1
        /\ p.name \in DOMAIN quarantine
        /\ Path("root", DerivedName(p.name)) \in DOMAIN ingest

\* C5: a row whose score is below the threshold is clean; once handle(p) has
\* returned for it, metadata completion ran exactly once and metadata_status
\* is COMPLETED or FAILED, never PENDING.
C5_ScenarioA ==
    \A p \in DOMAIN db :
        Lt(db[p].noise_score, NOISE_THRESHOLD)
            => /\ db[p].is_clean
               /\ H(p).meta <= 1
               /\ H(p).returned >= 1
                    => /\ H(p).meta = 1
                       /\ db[p].metadata_status \in {"COMPLETED", "FAILED"}

\* handle returned for a clean file, with either verdict of the invoker
C5_Witness ==
    \E p \in DOMAIN db :
        /\ db[p].is_clean /\ H(p).returned = 1
        /\ db[p].metadata_status = "FAILED"

\* C6: with the RepairService constructed without its ffmpeg binary, no row
\* ever gets repair_status FIXED or UNFIXABLE: a quarantined dirty file stays
\* NEEDED.
C6_ScenarioC ==
    repair_service = "NoDenoiser"
        => \A p \in DOMAIN db :
             /\ db[p].repair_status \notin {"FIXED", "UNFIXABLE"}
             /\ H(p).moved >= 1 /\ H(p).returned >= 1 => db[p].repair_status = "NEEDED"

\* C7: a repair-tool run that does not finish is always left through a
\* timeout: a thread waiting for ffmpeg can take a next step.
C7_ToolBoundedByTimeout ==
    \A w \in Workers : pc[w] = "rf_hung" => ENABLED Handler(w)

\* C8: a file in Quarantine stays there with the same content in every later
\* state.
C8_QuarantineKeeps ==
    [][\A n \in DOMAIN quarantine :
         n \in DOMAIN quarantine' /\ quarantine'[n] = quarantine[n]]_vars

\* C9: no step of repair_file touches Quarantine, and a repair_file that
\* returns None leaves the ingestion directory as it was; the quarantined
\* source is still there when it returns.
C9_RepairNonDestructive ==
    [][\A w \in Workers :
         (pc[w] \in {"rf_start", "rf_finalize"} /\ pc'[w] # pc[w])
            => /\ quarantine' = quarantine
               /\ loc[w].quarantined_path \in DOMAIN quarantine'
               /\ loc'[w].repaired_file = NoPath => ingest' = ingest]_vars

\* repair_file has returned None after the tool ran, the source is quarantined
C9_Witness ==
    \E w \in Workers :
        /\ pc[w] = "pf_final" /\ loc[w].repaired_file = NoPath
        /\ loc[w].tool \in {"ok", "ok_no_output", "fail", "fail_partial"}
        /\ loc[w].quarantined_path \in DOMAIN quarantine

\* C10: a row whose repair_status is FIXED or UNFIXABLE is never changed again.
C10_TerminalAbsorbing ==
    [][\A p \in DOMAIN db :
         db[p].repair_status \in {"FIXED", "UNFIXABLE"}
            => p \in DOMAIN db' /\ db'[p] = db[p]]_vars

\* the re-injected output of a FIXED source has been handled under its own row
C10_Witness ==
    \E p \in DOMAIN db :
        /\ db[p].repair_status = "FIXED"
        /\ Path("root", DerivedName(p.name)) \in DOMAIN db
        /\ H(Path("root", DerivedName(p.name))).returned >= 1

\* C11: at the step that moves a repaired output into the ingestion
\* directory, the destination path has no ledger row.
C11_FreshIdentity ==
    [][\A w \in Workers :
         (pc[w] = "rf_finalize" /\ loc'[w].repaired_file # NoPath)
            => loc'[w].repaired_file \notin DOMAIN db]_vars

Quiescent ==
    /\ phase = "watching"
    /\ events = << >>
    /\ \A w \in Workers : pc[w] = "idle"

\* C13: once nothing is left to run, every repaired output that sits in the
\* ingestion directory has been handled: its path has a ledger row.
C13_ReinjectedIsHandled ==
    Quiescent
        => \A p \in DOMAIN ingest : ingest[p].rep > 0 => p \in DOMAIN db

\* C14: once a path has a row, no step changes the row's is_clean or
\* noise_score or removes the row, whether the step is a status update or a
\* later create for the same path; a rejected create leaves the whole ledger
\* as it was.
C14_WriteOnce ==
    [][/\ \A p \in DOMAIN db :
            /\ p \in DOMAIN db'
            /\ db'[p].is_clean = db[p].is_clean
            /\ db'[p].noise_score = db[p].noise_score
       /\ \A p \in DOMAIN db :
            (H(p).skipped = FALSE /\ p \in DOMAIN hist' /\ hist'[p].skipped) => db' = db]_vars

\* a later create for a ledgered path was rejected and a status was updated
C14_Witness ==
    \E p \in DOMAIN db :
        /\ H(p).skipped /\ H(p).created = 1
        /\ db[p].metadata_status # "PENDING"
        /\ db[p].repair_status # "NONE"

\* C15: a clean row has repair_status NONE, a dirty row has the metadata_status
\* it was created with (never COMPLETED or FAILED), and no row carries both a
\* repair_status other than NONE and a metadata_status the tagging branch wrote.
C15_BranchExclusive ==
    \A p \in DOMAIN db :
        /\ db[p].is_clean => db[p].repair_status = "NONE"
        /\ ~db[p].is_clean => db[p].metadata_status = "PENDING"
        /\ ~(db[p].repair_status # "NONE" /\ db[p].metadata_status \in {"COMPLETED", "FAILED"})

\* one row went down the tagging branch and another down the repair branch
C15_Witness ==
    \E p, q \in DOMAIN db :
        /\ db[p].is_clean /\ db[p].metadata_status \in {"COMPLETED", "FAILED"}
        /\ ~db[q].is_clean /\ db[q].repair_status \in {"NEEDED", "FIXED", "UNFIXABLE"}
        /\ H(q).returned = 1

\* C16: no failure while handling a file leaves process_file: the initial scan
\* is never ended by an exception and the observer's dispatch thread is never
\* killed by one, so both stay able to take the next file.
C16_ErrorIsolation ==
    /\ phase # "dead"
    /\ pc["main"] # "crashed"
    /\ pc["observer"] # "crashed"

\* C17: the step of process_file in which the move into quarantine fails
\* returns normally and leaves the file at its watch-tree path, the three
\* directories as they were, the row at repair_status NEEDED and the repair
\* service not called.
C17_MoveFailure ==
    [][\A w \in Workers :
         LET p == loc[w].filepath IN
         (pc[w] = "pf_move" /\ pc'[w] # pc[w] /\ hist'[p].moved = H(p).moved)
            => /\ pc'[w] = "idle"
               /\ p \in DOMAIN ingest' /\ ingest' = ingest
               /\ quarantine' = quarantine
               /\ workspace' = workspace
               /\ p \in DOMAIN db' /\ db'[p].repair_status = "NEEDED"
               /\ hist'[p].repaired = 0
               /\ hist'[p].returned = H(p).returned + 1]_vars

\* a dirty file whose move failed while a repair service was there: handled,
\* still in the watch tree, never repaired
C17_Witness ==
    \E p \in DOMAIN db :
        /\ repair_service = "Ready"
        /\ ~db[p].is_clean /\ db[p].repair_status = "NEEDED"
        /\ H(p).needed = 1 /\ H(p).moved = 0 /\ H(p).returned = 1 /\ H(p).repaired = 0
        /\ p \in DOMAIN ingest
        /\ QuarantineDest(p) \notin DOMAIN quarantine

\* C18: once nothing is left to run, every audio file the user has put into
\* the watch tree, before startup or at any time after it, has been passed
\* to process_file.
C18_NoFileMissed ==
    Quiescent
        => \A p \in DOMAIN ingest :
             (IsAudio(p) /\ ingest[p].rep = 0)
                => (p \in DOMAIN hist /\ (hist[p].scored > 0 \/ hist[p].skipped))

\* C19: a restart keeps every row, and in the processes started afterwards no
\* step scores, tags, quarantines or repairs a path whose row an earlier
\* process created, changes that row or creates a second one: the path is
\* skipped.
C19_LedgerSurvivesRestart ==
    [][/\ boots' # boots => db' = db
       /\ \A p \in DOMAIN db :
            /\ H(p).created <= 1
            /\ (boots' = boots /\ H(p).createdBoot < boots)
                 => /\ p \in DOMAIN db' /\ db'[p] = db[p]
                    /\ \A f \in {"scored", "created", "meta", "needed", "moved", "repaired"} :
                         hist'[p][f] = H(p)[f]]_vars

\* the initial scan of a second process has skipped a path that the first
\* process scored and ledgered
C19_Witness ==
    \E p \in DOMAIN db :
        /\ boots >= 2
        /\ H(p).createdBoot = 1 /\ H(p).skipBoot >= 2
        /\ H(p).scored = 1 /\ H(p).created = 1
        /\ p \in DOMAIN ingest

\* C20: the is_clean a row stores is true exactly when the score the scorer
\* gave, which the row stores too, is strictly below NOISE_THRESHOLD; a handled
\* file whose score is below the threshold went to tagging only, one whose
\* score equals or exceeds it went to quarantine only.
C20_Threshold ==
    \A p \in DOMAIN db :
        LET below == db[p].noise_score # NaN /\ db[p].noise_score < NOISE_THRESHOLD IN
        /\ db[p].is_clean <=> below
        /\ H(p).raw.kind = "output" => db[p].noise_score = H(p).raw.out
        /\ H(p).returned > 0
             => IF below
                THEN H(p).meta = 1 /\ H(p).needed = 0 /\ H(p).moved = 0 /\ H(p).repaired = 0
                ELSE H(p).meta = 0 /\ H(p).needed = 1

\* a file scored exactly at the threshold was stored dirty and quarantined
C20_Witness ==
    \E p \in DOMAIN db :
        /\ db[p].noise_score = NOISE_THRESHOLD
        /\ ~db[p].is_clean
        /\ H(p).needed = 1 /\ H(p).moved = 1 /\ H(p).returned = 1
        /\ p.name \in DOMAIN quarantine

\* C21: every score predict has handed to process_file, and every noise_score
\* a row stores, lies between 0.0 and 1.0.
C21_ScoreRange ==
    /\ \A p \in DOMAIN db : ValidScore(db[p].noise_score)
    /\ \A w \in Workers : pc[w] = "pf_add" => ValidScore(loc[w].score)

\* C22: repair_file answers a path only if ffmpeg reported success and its
\* output was in the workspace, and then the path is the watch root's
\* "repaired_<stem>.flac" and holds what was in the workspace; when it answers
\* None the watch tree is as it was.  Either way nothing is left at the
\* workspace path, and process_file writes FIXED for a path and UNFIXABLE for
\* None.
C22_RepairResult ==
    [][\A w \in Workers :
         LET wn == loc[w].work
             qp == loc[w].quarantined_path
             p == loc[w].filepath
             out == loc'[w].repaired_file
         IN
         /\ (pc[w] = "rf_finalize" /\ pc'[w] # pc[w])
              => /\ wn \notin DOMAIN workspace'
                 /\ out # NoPath
                      => /\ loc[w].tool \in {"ok", "ok_no_output"}
                         /\ wn \in DOMAIN workspace
                         /\ out = Path("root", DerivedName(qp))
                         /\ out \in DOMAIN ingest' /\ ingest'[out] = workspace[wn]
                 /\ out = NoPath => ingest' = ingest
                 /\ (loc[w].tool \in {"fail", "fail_partial"} \/ wn \notin DOMAIN workspace)
                      => out = NoPath
         /\ (pc[w] = "pf_final" /\ pc'[w] # pc[w] /\ p \in DOMAIN db)
              => /\ p \in DOMAIN db'
                 /\ db'[p].repair_status =
                      IF loc[w].repaired_file # NoPath THEN "FIXED" ELSE "UNFIXABLE"]_vars

\* ffmpeg was run on a quarantined file, repair_file gave no result: nothing
\* is left in the workspace, nothing was put back and the row says UNFIXABLE
C22_Witness ==
    \E p \in DOMAIN db :
        /\ db[p].repair_status = "UNFIXABLE"
        /\ H(p).repaired = 1 /\ H(p).returned = 1
        /\ repair_service = "Ready"
        /\ workspace = NoFiles
        /\ p.name \in DOMAIN quarantine
        /\ Path("root", DerivedName(p.name)) \notin DOMAIN ingest

\* the file with content c lies somewhere in the watch tree
InWatchTree(c) == \E q \in DOMAIN ingest : ingest[q] = c

\* C23: a row at FIXED or UNFIXABLE was set to NEEDED, its file was moved to
\* Quarantine and repair_file was called for it, in that order; the file it was
\* created for lies in Quarantine and not in the watch tree, and the file a
\* running repair works on is not in the watch tree.
C23_DirtyOrder ==
    /\ \A p \in DOMAIN db :
         db[p].repair_status \in {"FIXED", "UNFIXABLE"}
            => /\ H(p).needed = 1 /\ H(p).moved = 1 /\ H(p).repaired = 1
               /\ QuarantineDest(p) \in DOMAIN quarantine
               /\ quarantine[QuarantineDest(p)] = H(p).content
               /\ ~InWatchTree(H(p).content)
    /\ \A w \in Workers :
         pc[w] \in {"rf_start", "rf_hung", "rf_finalize", "pf_final"}
            => ~InWatchTree(loc[w].content)

\* C24: while ffmpeg is missing, a call of repair_file returns None at once,
\* with no tool run and the workspace and the watch tree as they were; no
\* step takes a file out of Quarantine or changes it, the workspace stays
\* empty and no repaired file appears in the watch tree.
C24_QuarantineOnly ==
    [][repair_service # "Ready"
         => /\ \A w \in Workers :
                 (pc[w] = "rf_start" /\ pc'[w] # pc[w])
                    => /\ pc'[w] = "pf_final"
                       /\ loc'[w].repaired_file = NoPath
                       /\ loc'[w].tool = "none"
                       /\ workspace' = workspace /\ ingest' = ingest
            /\ \A n \in DOMAIN quarantine :
                 n \in DOMAIN quarantine' /\ quarantine'[n] = quarantine[n]
            /\ workspace' = NoFiles
            /\ \A q \in DOMAIN ingest' : ingest'[q].rep = 0]_vars

\* C25: once a process has finished its initial scan and nothing is running,
\* no row is still at the values it was created with (metadata_status PENDING
\* and repair_status NONE), whether or not an earlier process stopped in the
\* middle of handling its file.
C25_NoPartialLedger ==
    Quiescent
        => \A p \in DOMAIN db :
             ~(db[p].metadata_status = "PENDING" /\ db[p].repair_status = "NONE")

\* C26: process_file is entered only with paths whose extension is mp3, flac,
\* wav or m4a: every path with a ledger row, every path that was skipped or
\* scored, every path a thread is working on and every file in Quarantine or
\* in the workspace has such an extension.
C26_ExtensionFilter ==
    /\ \A p \in (DOMAIN db) \cup (DOMAIN hist) : p.name.ext \in {"mp3", "flac", "wav", "m4a"}
    /\ \A w \in Workers :
         pc[w] # "idle" => loc[w].filepath.name.ext \in {"mp3", "flac", "wav", "m4a"}
    /\ \A n \in (DOMAIN quarantine) \cup (DOMAIN workspace) :
         n.ext \in {"mp3", "flac", "wav", "m4a"}

\* the initial scan has passed a.txt, which was there at startup, and handled
\* an audio file; a.txt is still in the watch tree, untouched
C26_Witness ==
    \E p \in DOMAIN ingest :
        /\ p.name.ext = "txt" /\ ingest[p].id = PathId(p)
        /\ Quiescent
        /\ p \notin DOMAIN hist /\ p \notin DOMAIN db
        /\ \E q \in DOMAIN db : H(q).returned = 1

\* C27: every file in Quarantine is the file some row was created for, under
\* the base name of that row's path, and that row is dirty with a
\* repair_status other than NONE; no row classified clean had its file moved to
\* Quarantine, and the metadata CLI was never started for a row classified
\* dirty.
C27_OnlyDirtyQuarantined ==
    /\ \A n \in DOMAIN quarantine :
         \E p \in DOMAIN db :
            /\ QuarantineDest(p) = n
            /\ H(p).content = quarantine[n]
            /\ ~db[p].is_clean
            /\ db[p].repair_status # "NONE"
    /\ \A p \in DOMAIN db :
         /\ db[p].is_clean => H(p).moved = 0 /\ H(p).needed = 0
         /\ ~db[p].is_clean => H(p).meta = 0

\* a dirty file lies in Quarantine while a clean one, tagged, is still in the
\* watch tree
C27_Witness ==
    \E p, q \in DOMAIN db :
        /\ ~db[p].is_clean /\ H(p).moved = 1
        /\ p.name \in DOMAIN quarantine /\ quarantine[p.name] = H(p).content
        /\ db[q].is_clean /\ H(q).meta = 1
        /\ q \in DOMAIN ingest /\ ingest[q] = H(q).content

\* C28: the step of repair_file that moves the repaired output into the watch
\* tree leaves every file that was already there in place with the same
\* content.
C28_ReinjectNeverOverwrites ==
    [][\A w \in Workers :
         (pc[w] = "rf_finalize" /\ pc'[w] # pc[w])
            => \A q \in DOMAIN ingest : q \in DOMAIN ingest' /\ ingest'[q] = ingest[q]]_vars

\* C29: a file that process_file leaves in the watch tree has been scored: when
\* process_file returns at the is_scanned test, the content lying at the path
\* is the content that was scored when the row was created.
C29_NoUnscoredContent ==
    [][\A w \in Workers :
         LET p == loc[w].filepath IN
         (pc[w] = "pf_check" /\ pc'[w] = "idle" /\ p \in DOMAIN ingest /\ IsAudio(p))
            => ingest[p] = H(p).content]_vars

\* no thread is between the entry of repair_file and its return
NoRepairRunning == \A w \in Workers : pc[w] \notin {"rf_start", "rf_hung", "rf_finalize"}

\* C30: whenever no repair_file call is running the workspace is empty, and a
\* file that repair_file moves into the watch tree is the output ffmpeg made
\* from the quarantined source in this very call.
C30_WorkspaceTransient ==
    [][/\ NoRepairRunning => workspace = NoFiles
       /\ \A w \in Workers :
            (pc[w] = "rf_finalize" /\ loc'[w].repaired_file # NoPath)
               => /\ loc[w].quarantined_path \in DOMAIN quarantine
                  /\ ingest'[loc'[w].repaired_file]
                        = Denoised(quarantine[loc[w].quarantined_path])]_vars

====
